---- MODULE Spec2Model ----
(***************************************************************************)
(* A model of ocr2md: the text normalizer (fix_citations, normalize_text), *)
(* the page pipeline driver (ocr2md.main) and the translation utility      *)
(* (TG_translate.main).                                                    *)
(*                                                                         *)
(* A Python str is a sequence of one-character strings.  The whitespace    *)
(* the model's texts contain is the space and the line feed; the line feed *)
(* is the only line boundary that occurs.                                  *)
(***************************************************************************)
EXTENDS Integers, Sequences, FiniteSets, TLC

VARIABLES
    \* ---- text normalizer (src/ocr2md.py:11-34) ----
    raw,        \* the backend text handed to the normalizer
    lines,      \* normalize_text's list `lines` after its loop
    text,       \* the text computed so far
    norm1,      \* the result of the first normalize_text call
    npc,        \* position in the normalizer run
    \* ---- page pipeline driver (src/ocr2md.py:97-175) ----
    nPages,     \* len(pages): the number of page images of the document
    images,     \* pages_dir holds page-*.png
    files,      \* text_dir: page index -> content of page-NNN.txt, or Absent
    fmt,        \* output_format: the format the document is processed with
    outFile,    \* content of <stem>.<fmt>, or Absent
    pc,         \* position of main()
    idx,        \* the loop variable idx
    exitCode,   \* exit status of the last run (-1: none yet)
    ocrCalls,   \* page -> number of run_ocr calls made for it, over all runs
    lostCalls,  \* page -> number of run_ocr calls cut short by a kill
    ocrResult,  \* page -> what the last completed run_ocr call gave
    pandocCalls,\* number of pandoc invocations of the current run
    firstAbsent,\* first page without a text file when the run started (0: none)
    firstOcr,   \* first page the current run called run_ocr for (0: none)
    runs,       \* runs started from a finished state
    kills,      \* runs killed
    \* ---- translation utility (src/TG_translate.py:21-56) ----
    tExists,    \* md_path.exists()
    tSuffix,    \* md_path.suffix
    tArgc,      \* len(sys.argv)
    tOut,       \* content of the sibling <stem>.es.md, or Absent
    tCalls,     \* number of backend invocations
    tRet,       \* the backend's return code and stdout
    tpc,        \* position of TG_translate.main
    tExit       \* exit status (-1: still running)

normVars  == <<raw, lines, text, norm1, npc>>
pipeVars  == <<nPages, images, files, fmt, outFile, pc, idx, exitCode,
               ocrCalls, lostCalls, ocrResult, pandocCalls, firstAbsent,
               firstOcr, runs, kills>>
transVars == <<tExists, tSuffix, tArgc, tOut, tCalls, tRet, tpc, tExit>>
vars      == <<normVars, pipeVars, transVars>>

----------------------------------------------------------------------------
(* Bounds *)

MaxLen   == 4   \* longest enumerated normalizer input
MaxPages == 3   \* largest document
MaxRuns  == 2   \* runs started after a finished run
MaxKills == 1   \* kills

----------------------------------------------------------------------------
(* Characters and strings *)

\* a file that does not exist: a tuple that is no text
Absent == <<"ENOENT">>

\* what run_ocr gave for a page: nothing yet, TimeoutError, any other error
NoResult == <<"none">>
TimedOut == <<"TimeoutError">>
Failed   == <<"RuntimeError">>

None == "None"

Ws     == {" ", "\n"}
Letter == {"a","b","c","d","e","f","g","h","i","j","k","l","m","n","o","p","q",
           "r","s","t","u","v","w","x","y","z",
           "A","B","C","D","E","F","G","H","I","J","K","L","M","N","O","P","Q",
           "R","S","T","U","V","W","X","Y","Z"}
Digit  == {"0","1","2","3","4","5","6","7","8","9"}

\* the character class [a-zA-Z0-9+\s] of the citation pattern
CiteClass == Letter \cup Digit \cup {"+"} \cup Ws

\* s[i], or None past the end
At(s, i) == IF i >= 1 /\ i <= Len(s) THEN s[i] ELSE None

Slice(s, a, b) == IF a > b THEN << >> ELSE SubSeq(s, a, b)

\* the first index >= i of s that holds no whitespace (\s*, greedy)
RECURSIVE SkipWs(_, _)
SkipWs(s, i) == IF i <= Len(s) /\ s[i] \in Ws THEN SkipWs(s, i + 1) ELSE i

\* the first index >= i of s outside the class ([a-zA-Z0-9+\s]+, greedy)
RECURSIVE SkipClass(_, _)
SkipClass(s, i) ==
    IF i <= Len(s) /\ s[i] \in CiteClass THEN SkipClass(s, i + 1) ELSE i

\* str.rstrip()
RECURSIVE RStrip(_)
RStrip(s) ==
    IF s # << >> /\ s[Len(s)] \in Ws THEN RStrip(SubSeq(s, 1, Len(s) - 1)) ELSE s

\* str.lstrip()
LStrip(s) == Slice(s, SkipWs(s, 1), Len(s))

\* str.strip()
Strip(s) == RStrip(LStrip(s))

\* str.splitlines(): a final line feed ends the last line, it opens no new one
RECURSIVE SplitFrom(_, _, _)
SplitFrom(s, i, cur) ==
    IF i > Len(s) THEN (IF cur = << >> THEN << >> ELSE <<cur>>)
    ELSE IF s[i] = "\n" THEN <<cur>> \o SplitFrom(s, i + 1, << >>)
    ELSE SplitFrom(s, i + 1, Append(cur, s[i]))

SplitLines(s) == SplitFrom(s, 1, << >>)

\* "\n".join(ls)
RECURSIVE Join(_)
Join(ls) ==
    IF ls = << >> THEN << >>
    ELSE IF Len(ls) = 1 THEN ls[1]
    ELSE ls[1] \o <<"\n">> \o Join(Tail(ls))

\* line.startswith("<|")
StartsWithMarker(line) == Len(line) >= 2 /\ line[1] = "<" /\ line[2] = "|"

----------------------------------------------------------------------------
(* fix_citations (src/ocr2md.py:11-16)                                     *)
(*   re.sub(r'\\?\(\s*\^\s*\{?\s*([a-zA-Z0-9+\s]+)\s*\}?\s*\\?\)',         *)
(*          r'[^\1]', text)                                                *)

\* The match of the pattern that starts at p, as the backtracking matcher
\* finds it: [ok, end (the index after the match), cap (group 1)].
\* Every quantifier is greedy.  The whitespace after the caret and after the
\* brace is taken by \s* first; group 1 then takes the longest run of class
\* characters.  When that run is empty, the \s* before the group gives its
\* last whitespace character back, and group 1 is that one character.
MatchAt(s, p) ==
    LET i1 == IF At(s, p) = "\\" THEN p + 1 ELSE p
        i2 == SkipWs(s, i1 + 1)
        w2 == i2 + 1
        i3 == SkipWs(s, w2)
        brace == At(s, i3) = "{"
        w3 == IF brace THEN i3 + 1 ELSE i3
        rs == SkipWs(s, w3)
        re == SkipClass(s, rs)
        gaveBack == (brace /\ re > w3) \/ (~brace /\ re > w2)
        capOk == re > rs \/ gaveBack
        cap == IF re > rs THEN SubSeq(s, rs, re - 1) ELSE SubSeq(s, re - 1, re - 1)
        i4 == IF At(s, re) = "}" THEN re + 1 ELSE re
        i5 == SkipWs(s, i4)
        i6 == IF At(s, i5) = "\\" THEN i5 + 1 ELSE i5
    IN  IF At(s, i1) = "(" /\ At(s, i2) = "^" /\ capOk /\ At(s, i6) = ")"
        THEN [ok |-> TRUE, end |-> i6 + 1, cap |-> cap]
        ELSE [ok |-> FALSE, end |-> p, cap |-> << >>]

\* the replacement r'[^\1]'
Replacement(cap) == <<"[", "^">> \o cap \o <<"]">>

\* re.sub: leftmost non-overlapping matches, scanning from p
RECURSIVE SubFrom(_, _)
SubFrom(s, p) ==
    IF p > Len(s) THEN << >>
    ELSE LET m == MatchAt(s, p)
         IN  IF m.ok THEN Replacement(m.cap) \o SubFrom(s, m.end)
             ELSE <<s[p]>> \o SubFrom(s, p + 1)

fix_citations(s) == SubFrom(s, 1)

----------------------------------------------------------------------------
(* normalize_text (src/ocr2md.py:19-34) *)

\* A control-marker line loses only its marker prefix.
RECURSIVE KeepLinesPrefixOnly(_)
KeepLinesPrefixOnly(ls) ==
    IF ls = << >> THEN << >>
    ELSE LET line == RStrip(ls[1])
         IN  IF StartsWithMarker(line)
             THEN <<SubSeq(line, 3, Len(line))>> \o KeepLinesPrefixOnly(Tail(ls))
             ELSE <<line>> \o KeepLinesPrefixOnly(Tail(ls))

\* A line that holds the marker anywhere is dropped.
RECURSIVE KeepLinesMarkerAnywhere(_)
KeepLinesMarkerAnywhere(ls) ==
    IF ls = << >> THEN << >>
    ELSE LET line == RStrip(ls[1])
             hasMarker == \E k \in 1..(Len(line) - 1) :
                              line[k] = "<" /\ line[k + 1] = "|"
         IN  IF line = << >> THEN <<line>> \o KeepLinesMarkerAnywhere(Tail(ls))
             ELSE IF hasMarker THEN KeepLinesMarkerAnywhere(Tail(ls))
             ELSE <<line>> \o KeepLinesMarkerAnywhere(Tail(ls))

\* the loop of lines 24-31 over raw.splitlines()
RECURSIVE KeepLines(_)
KeepLines(ls) ==
    IF ls = << >> THEN << >>
    ELSE LET line == RStrip(ls[1])
         IN  IF line = << >> THEN <<line>> \o KeepLines(Tail(ls))
             ELSE IF StartsWithMarker(line) THEN KeepLines(Tail(ls))
             ELSE <<line>> \o KeepLines(Tail(ls))

\* line 33
JoinStripped(ls) == Strip(Join(ls))

normalize_text(s) == fix_citations(JoinStripped(KeepLines(SplitLines(s))))

----------------------------------------------------------------------------
(* The normalizer on its own: one input, run through normalize_text stage  *)
(* by stage, through fix_citations alone, and through normalize_text again *)

NormAlphabet == {"<", "|", " ", "\n", "(", ")", "^", "1"}

BoundedTexts == UNION {[1..k -> NormAlphabet] : k \in 0..MaxLen}

Cite26       == <<"(", "^", "2", "6", ")">>
CiteBraces   == <<"(", "^", "{", "2", "6", "}", ")">>
CiteSpaced   == <<"(", "^", " ", "{", " ", "2", "6", " ", "}", " ", ")">>
CiteEscaped  == <<"\\", "(", "^", "2", "6", "\\", ")">>
Canon26      == <<"[", "^", "2", "6", "]">>
HelloRaw     == <<"<", "|", "r", "e", "f", "|", ">", "H", "e", "l", "l", "o", "\n", "\n", "(", "^", "1", ")">>
MarkerLine   == <<"<", "|", "f", "o", "o", "|", ">", "b", "a", "r">>
MidMarker    == <<"t", "e", "x", "t", "<", "|", "m", "i", "d", "|", ">">>
MixedPage    == <<"<", "|", "f", "o", "o", "|", ">", "b", "a", "r", "\n", "\n", "t", "e", "x", "t", "<", "|", "m", "i", "d", "|", ">", "\n", "\n", "e", "n", "d">>

CiteVariants == {Cite26, CiteBraces, CiteSpaced, CiteEscaped}

Examples == CiteVariants \cup {HelloRaw, MarkerLine, MidMarker, MixedPage}

NormInputs == BoundedTexts \cup Examples

NormIdle ==
    /\ raw = << >> /\ lines = << >> /\ text = << >> /\ norm1 = << >>
    /\ npc = "off"

\* fix_citations applied to the input directly (as the post-pass of main does)
CiteOnly ==
    /\ npc = "input"
    /\ text' = fix_citations(raw)
    /\ npc' = "cited"
    /\ UNCHANGED <<raw, lines, norm1>>

\* normalize_text, lines 23-31
FilterLines ==
    /\ npc = "input"
    /\ lines' = KeepLines(SplitLines(raw))
    /\ npc' = "filtered"
    /\ UNCHANGED <<raw, text, norm1>>

\* normalize_text, line 33
JoinLines ==
    /\ npc = "filtered"
    /\ text' = JoinStripped(lines)
    /\ npc' = "joined"
    /\ UNCHANGED <<raw, lines, norm1>>

\* normalize_text, line 34
CiteStep ==
    /\ npc = "joined"
    /\ text' = fix_citations(text)
    /\ norm1' = fix_citations(text)
    /\ npc' = "normalized"
    /\ UNCHANGED <<raw, lines>>

\* normalize_text applied to its own result
Renormalize ==
    /\ npc = "normalized"
    /\ text' = normalize_text(norm1)
    /\ npc' = "renormalized"
    /\ UNCHANGED <<raw, lines, norm1>>

----------------------------------------------------------------------------
(* The translation utility: TG_translate.main (src/TG_translate.py:36-56)  *)
(* with run_translation (lines 21-34)                                      *)

UpperCase == <<"A","B","C","D","E","F","G","H","I","J","K","L","M","N","O","P",
               "Q","R","S","T","U","V","W","X","Y","Z">>
LowerCase == <<"a","b","c","d","e","f","g","h","i","j","k","l","m","n","o","p",
               "q","r","s","t","u","v","w","x","y","z">>

LowerChar(c) ==
    IF \E k \in 1..26 : UpperCase[k] = c
    THEN LowerCase[CHOOSE k \in 1..26 : UpperCase[k] = c]
    ELSE c

\* str.lower()
Lower(s) == [k \in 1..Len(s) |-> LowerChar(s[k])]

DotMd == <<".", "m", "d">>

\* the suffixes of the paths given on the command line
Suffixes == {DotMd, <<".", "M", "D">>, <<".", "M", "d">>, <<".", "t", "x", "t">>,
             <<".", "m", "a", "r", "k", "d", "o", "w", "n">>, << >>}

\* what the translation backend prints
Translations == {<<" ", "h", "o", "l", "a", "\n">>, <<"s", "i">>, << >>}

\* a translation an earlier run left in the sibling file
OldTranslation == <<"o", "l", "d">>

NoReturn == [code |-> -1, out |-> << >>]

\* The extension is not checked.
ValidPathAnyExtension(exists, suffix) == exists

\* line 43: md_path.exists() and md_path.suffix.lower() == ".md"
ValidPath(exists, suffix) == exists /\ Lower(suffix) = DotMd

TransIdle ==
    /\ tExists = FALSE /\ tSuffix = DotMd /\ tArgc = 2 /\ tOut = Absent
    /\ tCalls = 0 /\ tRet = NoReturn /\ tpc = "off" /\ tExit = -1

InitTrans ==
    /\ tArgc \in {1, 2, 3}
    /\ tExists \in BOOLEAN
    /\ tSuffix \in Suffixes
    /\ tOut \in {Absent, OldTranslation}
    /\ tCalls = 0 /\ tRet = NoReturn /\ tpc = "start" /\ tExit = -1

\* lines 37-39: the wrong number of arguments
TUsage ==
    /\ tpc = "start"
    /\ tArgc # 2
    /\ tpc' = "exited"
    /\ tExit' = 1
    /\ UNCHANGED <<tExists, tSuffix, tArgc, tOut, tCalls, tRet>>

\* lines 43-45: a missing file or a wrong extension
TInvalid ==
    /\ tpc = "start"
    /\ tArgc = 2
    /\ ~ValidPath(tExists, tSuffix)
    /\ tpc' = "exited"
    /\ tExit' = 1
    /\ UNCHANGED <<tExists, tSuffix, tArgc, tOut, tCalls, tRet>>

\* lines 47-29: the file is read and run_translation starts the backend
TInvoke ==
    /\ tpc = "start"
    /\ tArgc = 2
    /\ ValidPath(tExists, tSuffix)
    /\ tpc' = "backend"
    /\ tCalls' = tCalls + 1
    /\ UNCHANGED <<tExists, tSuffix, tArgc, tOut, tRet, tExit>>

\* lines 31-32: the backend exits nonzero, RuntimeError leaves main
TBackendFail ==
    /\ tpc = "backend"
    /\ tRet' = [code |-> 1, out |-> << >>]
    /\ tpc' = "exited"
    /\ tExit' = 1
    /\ UNCHANGED <<tExists, tSuffix, tArgc, tOut, tCalls>>

\* lines 34 and 53-56: the backend exits zero with stdout out; the stripped
\* text is written to <stem>.es.md
TBackendOk(out) ==
    /\ tpc = "backend"
    /\ tRet' = [code |-> 0, out |-> out]
    /\ tOut' = Strip(out)
    /\ tpc' = "exited"
    /\ tExit' = 0
    /\ UNCHANGED <<tExists, tSuffix, tArgc, tCalls>>

TTranslated == \E out \in Translations : TBackendOk(out)

NextTrans ==
    \/ (TUsage /\ UNCHANGED <<normVars, pipeVars>>)
    \/ (TInvalid /\ UNCHANGED <<normVars, pipeVars>>)
    \/ (TInvoke /\ UNCHANGED <<normVars, pipeVars>>)
    \/ (TBackendFail /\ UNCHANGED <<normVars, pipeVars>>)
    \/ (TTranslated /\ UNCHANGED <<normVars, pipeVars>>)

----------------------------------------------------------------------------
(* The page pipeline driver: main (src/ocr2md.py:97-175) with run_ocr,     *)
(* pdf_to_images and run_pandoc.  The command line is a valid one.         *)

\* "[Página omitida por timeout]" (line 148)
TimeoutPlaceholder ==
    <<"[", "P", "á", "g", "i", "n", "a", " ", "o", "m", "i", "t", "i", "d",
    "a", " ", "p", "o", "r", " ", "t", "i", "m", "e", "o", "u", "t", "]">>

\* "[Error de OCR en esta página]" (line 152)
ErrorPlaceholder ==
    <<"[", "E", "r", "r", "o", "r", " ", "d", "e", " ", "O", "C", "R", " ",
    "e", "n", " ", "e", "s", "t", "a", " ", "p", "á", "g", "i", "n", "a",
    "]">>

\* a page text an earlier normalization rule left behind: "(^1)"
StaleCite == <<"(", "^", "1", ")">>

\* what the OCR backend prints when it succeeds
RawOutputs == {HelloRaw}

\* what a text file holds when the first run starts
PreContents == {Absent, StaleCite}

\* normalize_text on each backend output, and fix_citations on each text a
\* page file can hold, tabulated once
Normalized == [r \in RawOutputs |-> normalize_text(r)]

PageTexts ==
    LET base == (PreContents \ {Absent})
                    \cup {TimeoutPlaceholder, ErrorPlaceholder}
                    \cup {Normalized[r] : r \in RawOutputs}
    IN  base \cup {fix_citations(c) : c \in base}

CitationsFixed == [c \in PageTexts |-> fix_citations(c)]

Formats == {"pdf", "epub"}

\* an output file: one that was there before the first run, one pandoc wrote
Existing == <<"existing">>
Rendered == <<"rendered">>

AllPages == 1..MaxPages
Pages    == 1..nPages

AllPresent == \A i \in Pages : files[i] # Absent

\* the first page of the document without a text file (0: every page has one)
FirstAbsentOf(fs) ==
    IF \A i \in Pages : fs[i] # Absent THEN 0
    ELSE CHOOSE i \in Pages :
             /\ fs[i] = Absent
             /\ \A j \in Pages : fs[j] = Absent => i <= j

\* A page that holds a placeholder is tried again.
SkipPageUnlessPlaceholder(fs, i) ==
    fs[i] # Absent /\ fs[i] \notin {TimeoutPlaceholder, ErrorPlaceholder}

\* The existence check is missing.
SkipPageNever(fs, i) == FALSE

\* out_txt.exists() (line 135)
SkipPage(fs, i) == fs[i] # Absent

\* Both handlers write the error placeholder.
PlaceholderAlwaysError(outcome) == ErrorPlaceholder

\* the text the except clauses of lines 146-152 write
Placeholder(outcome) ==
    IF outcome = "timeout" THEN TimeoutPlaceholder ELSE ErrorPlaceholder

\* Nothing reaches the disk.
WriteNothing(fs, i, content) == fs

\* out_txt.write_text(content) (lines 144, 148, 152, 162)
WriteText(fs, i, content) == [fs EXCEPT ![i] = content]

\* Pandoc runs whether or not the target exists.
OutputExistsIgnored(of) == FALSE

\* output_file.exists() (line 171)
OutputExists(of) == of # Absent

PipeIdle ==
    /\ nPages = 1 /\ images = FALSE
    /\ files = [i \in AllPages |-> Absent]
    /\ fmt = None /\ outFile = Absent
    /\ pc = "off" /\ idx = 0 /\ exitCode = -1
    /\ ocrCalls = [i \in AllPages |-> 0]
    /\ lostCalls = [i \in AllPages |-> 0]
    /\ ocrResult = [i \in AllPages |-> NoResult]
    /\ pandocCalls = 0 /\ firstAbsent = 0 /\ firstOcr = 0
    /\ runs = 0 /\ kills = 0

\* The disk before the first run: a document of 1..MaxPages pages, its page
\* images rasterized or not, text files left by earlier runs, the output
\* format asked for (every run of the document asks for the same) and its
\* output file present or not.
InitPipe ==
    /\ nPages \in 1..MaxPages
    /\ images \in BOOLEAN
    /\ files \in [AllPages -> PreContents]
    /\ \A i \in AllPages : (i > nPages \/ ~images) => files[i] = Absent
    /\ fmt \in Formats \cup {None}
    /\ outFile \in {Absent, Existing}
    /\ fmt = None => outFile = Absent
    /\ pc = "idle" /\ idx = 0 /\ exitCode = -1
    /\ ocrCalls = [i \in AllPages |-> 0]
    /\ lostCalls = [i \in AllPages |-> 0]
    /\ ocrResult = [i \in AllPages |-> NoResult]
    /\ pandocCalls = 0 /\ firstAbsent = 0 /\ firstOcr = 0
    /\ runs = 0 /\ kills = 0

\* a run may start: the first one, one after a finished run, one after a kill
CanStart ==
    \/ pc = "killed"
    \/ pc \in {"idle", "done", "failed"} /\ runs < MaxRuns

\* main, lines 98-130: pdf_to_images reuses the images or rasterizes them,
\* the page list is read and the loop begins
StartRun ==
    /\ CanStart
    /\ images' = TRUE
    /\ pc' = "loop"
    /\ idx' = 1
    /\ exitCode' = -1
    /\ pandocCalls' = 0
    /\ firstAbsent' = FirstAbsentOf(files)
    /\ firstOcr' = 0
    /\ runs' = IF pc = "killed" THEN runs ELSE runs + 1
    /\ UNCHANGED <<nPages, files, fmt, outFile, ocrCalls, lostCalls, ocrResult,
                   kills>>

\* pdf_to_images, lines 66-75: pdftoppm exits nonzero, check=True raises and
\* the run aborts
RasterizeFail ==
    /\ CanStart
    /\ ~images
    /\ pc' = "failed"
    /\ exitCode' = 1
    /\ pandocCalls' = 0
    /\ firstAbsent' = FirstAbsentOf(files)
    /\ firstOcr' = 0
    /\ runs' = IF pc = "killed" THEN runs ELSE runs + 1
    /\ UNCHANGED <<nPages, images, files, fmt, outFile, idx, ocrCalls,
                   lostCalls, ocrResult, kills>>

\* lines 132-137: the page's text file exists, the page is skipped
LoopSkip ==
    /\ pc = "loop" /\ idx <= nPages
    /\ SkipPage(files, idx)
    /\ idx' = idx + 1
    /\ UNCHANGED <<nPages, images, files, fmt, outFile, pc, exitCode,
                   ocrCalls, lostCalls, ocrResult, pandocCalls, firstAbsent,
                   firstOcr, runs, kills>>

\* lines 139-142 and 38-50: run_ocr starts the backend for the page
LoopInvoke ==
    /\ pc = "loop" /\ idx <= nPages
    /\ ~SkipPage(files, idx)
    /\ pc' = "ocr"
    /\ ocrCalls' = [ocrCalls EXCEPT ![idx] = @ + 1]
    /\ firstOcr' = IF firstOcr = 0 THEN idx ELSE firstOcr
    /\ UNCHANGED <<nPages, images, files, fmt, outFile, idx, exitCode,
                   lostCalls, ocrResult, pandocCalls, firstAbsent, runs, kills>>

\* lines 57 and 143-144: the backend exits zero with stdout r
OcrReturn(r) ==
    /\ pc = "ocr"
    /\ files' = WriteText(files, idx, Normalized[r])
    /\ ocrResult' = [ocrResult EXCEPT ![idx] = r]
    /\ idx' = idx + 1
    /\ pc' = "loop"
    /\ UNCHANGED <<nPages, images, fmt, outFile, exitCode, ocrCalls,
                   lostCalls, pandocCalls, firstAbsent, firstOcr, runs, kills>>

\* lines 51-52 and 146-148: the backend exceeds OCR_TIMEOUT
OcrTimeout ==
    /\ pc = "ocr"
    /\ files' = WriteText(files, idx, Placeholder("timeout"))
    /\ ocrResult' = [ocrResult EXCEPT ![idx] = TimedOut]
    /\ idx' = idx + 1
    /\ pc' = "loop"
    /\ UNCHANGED <<nPages, images, fmt, outFile, exitCode, ocrCalls,
                   lostCalls, pandocCalls, firstAbsent, firstOcr, runs, kills>>

\* lines 54-55 and 150-152: the backend exits nonzero (or cannot be started)
OcrFail ==
    /\ pc = "ocr"
    /\ files' = WriteText(files, idx, Placeholder("error"))
    /\ ocrResult' = [ocrResult EXCEPT ![idx] = Failed]
    /\ idx' = idx + 1
    /\ pc' = "loop"
    /\ UNCHANGED <<nPages, images, fmt, outFile, exitCode, ocrCalls,
                   lostCalls, pandocCalls, firstAbsent, firstOcr, runs, kills>>

\* lines 154-156: the loop is over
LoopEnd ==
    /\ pc = "loop" /\ idx > nPages
    /\ pc' = "postpass"
    /\ UNCHANGED <<nPages, images, files, fmt, outFile, idx, exitCode, ocrCalls,
                   lostCalls, ocrResult, pandocCalls, firstAbsent, firstOcr,
                   runs, kills>>

\* lines 159-162, for one text file: the file is rewritten when fix_citations
\* changes its content
PostPassFile(fs, i) ==
    IF fs[i] # Absent /\ CitationsFixed[fs[i]] # fs[i]
    THEN CitationsFixed[fs[i]]
    ELSE fs[i]

\* the text files after the post-pass has visited the files of S
PostPassOver(fs, S) ==
    [i \in AllPages |-> IF i \in S THEN PostPassFile(fs, i) ELSE fs[i]]

\* lines 157-170: the post-pass visits every text file; without an output
\* format main returns
PostPass ==
    /\ pc = "postpass"
    /\ files' = PostPassOver(files, Pages)
    /\ pc' = IF fmt = None THEN "done" ELSE "compose"
    /\ exitCode' = IF fmt = None THEN 0 ELSE exitCode
    /\ UNCHANGED <<nPages, images, fmt, outFile, idx, ocrCalls, lostCalls,
                   ocrResult, pandocCalls, firstAbsent, firstOcr, runs, kills>>

\* lines 171-172: the target exists, pandoc is skipped
ComposeSkip ==
    /\ pc = "compose"
    /\ OutputExists(outFile)
    /\ pc' = "done"
    /\ exitCode' = 0
    /\ UNCHANGED <<nPages, images, files, fmt, outFile, idx, ocrCalls,
                   lostCalls, ocrResult, pandocCalls, firstAbsent, firstOcr,
                   runs, kills>>

\* lines 174-175 and 78-94: run_pandoc raises when there is no text file,
\* else invokes pandoc, which exits zero (ok) or not
Compose(ok) ==
    /\ pc = "compose"
    /\ ~OutputExists(outFile)
    /\ LET noPages == {i \in Pages : files[i] # Absent} = {}
           good    == ok /\ ~noPages
       IN  /\ pandocCalls' = IF noPages THEN pandocCalls ELSE pandocCalls + 1
           /\ outFile' = IF good THEN Rendered
                         ELSE outFile
           /\ pc' = IF good THEN "done" ELSE "failed"
           /\ exitCode' = IF good THEN 0 ELSE 1
    /\ UNCHANGED <<nPages, images, files, fmt, idx, ocrCalls,
                   lostCalls, ocrResult, firstAbsent, firstOcr, runs, kills>>

PandocOk   == Compose(TRUE)
PandocFail == Compose(FALSE)

\* the process is killed in the per-page loop: before a page, or while the
\* backend works on one
Kill ==
    /\ pc \in {"loop", "ocr"}
    /\ kills < MaxKills
    /\ kills' = kills + 1
    /\ lostCalls' = IF pc = "ocr" THEN [lostCalls EXCEPT ![idx] = @ + 1]
                    ELSE lostCalls
    /\ pc' = "killed"
    /\ exitCode' = 137
    /\ UNCHANGED <<nPages, images, files, fmt, outFile, idx, ocrCalls,
                   ocrResult, pandocCalls, firstAbsent, firstOcr, runs>>

\* the process is killed in the post-pass, which has visited the files of S
\* (glob gives them in no particular order)
KillPostPass ==
    /\ pc = "postpass"
    /\ kills < MaxKills
    /\ \E S \in SUBSET Pages : files' = PostPassOver(files, S)
    /\ kills' = kills + 1
    /\ pc' = "killed"
    /\ exitCode' = 137
    /\ UNCHANGED <<nPages, images, fmt, outFile, idx, ocrCalls, lostCalls,
                   ocrResult, pandocCalls, firstAbsent, firstOcr, runs>>

OcrOk      == \E r \in RawOutputs : OcrReturn(r)

\* every step of a run (a kill is none)
RunStep ==
    \/ StartRun \/ RasterizeFail \/ LoopSkip \/ LoopInvoke \/ OcrOk \/ OcrTimeout
    \/ OcrFail \/ LoopEnd \/ PostPass \/ ComposeSkip
    \/ PandocOk \/ PandocFail

Next ==
    \/ (StartRun /\ UNCHANGED <<normVars, transVars>>)
    \/ (RasterizeFail /\ UNCHANGED <<normVars, transVars>>)
    \/ (LoopSkip /\ UNCHANGED <<normVars, transVars>>)
    \/ (LoopInvoke /\ UNCHANGED <<normVars, transVars>>)
    \/ (OcrOk /\ UNCHANGED <<normVars, transVars>>)
    \/ (OcrTimeout /\ UNCHANGED <<normVars, transVars>>)
    \/ (OcrFail /\ UNCHANGED <<normVars, transVars>>)
    \/ (LoopEnd /\ UNCHANGED <<normVars, transVars>>)
    \/ (PostPass /\ UNCHANGED <<normVars, transVars>>)
    \/ (ComposeSkip /\ UNCHANGED <<normVars, transVars>>)
    \/ (PandocOk /\ UNCHANGED <<normVars, transVars>>)
    \/ (PandocFail /\ UNCHANGED <<normVars, transVars>>)
    \/ (Kill /\ UNCHANGED <<normVars, transVars>>)
    \/ (KillPostPass /\ UNCHANGED <<normVars, transVars>>)

Init == InitPipe /\ NormIdle /\ TransIdle

Spec == Init /\ [][Next]_vars

\* A running process takes its next step, and a stopped pipeline is run
\* again while runs remain; a kill is never owed.
FairSpec == Spec /\ WF_vars(RunStep /\ UNCHANGED <<normVars, transVars>>)

----------------------------------------------------------------------------
(* The specifications of the normalizer and of the translation utility *)

NextNorm ==
    \/ (CiteOnly /\ UNCHANGED <<pipeVars, transVars>>)
    \/ (FilterLines /\ UNCHANGED <<pipeVars, transVars>>)
    \/ (JoinLines /\ UNCHANGED <<pipeVars, transVars>>)
    \/ (CiteStep /\ UNCHANGED <<pipeVars, transVars>>)
    \/ (Renormalize /\ UNCHANGED <<pipeVars, transVars>>)

InitNorm ==
    /\ raw \in NormInputs
    /\ lines = << >> /\ text = << >> /\ norm1 = << >>
    /\ npc = "input"

InitNormalizer == InitNorm /\ PipeIdle /\ TransIdle

SpecNorm == InitNormalizer /\ [][NextNorm]_vars

InitTranslate == InitTrans /\ NormIdle /\ PipeIdle

SpecTrans == InitTranslate /\ [][NextTrans]_vars

----------------------------------------------------------------------------
(* Properties of the page pipeline driver (Spec, FairSpec)                 *)

\* a step main takes from the head of the per-page loop with a page left
LoopStep == pc = "loop" /\ idx <= nPages /\ pc' # "killed"

\* run_ocr is called for page idx exactly when its text file is absent, and
\* for nothing else at no other place
InvokedIffAbsent ==
    /\ LoopStep => (ocrCalls'[idx] = ocrCalls[idx] + 1 <=> files[idx] = Absent)
    /\ \A i \in AllPages :
           ocrCalls'[i] # ocrCalls[i] =>
               /\ pc = "loop" /\ i = idx /\ files[i] = Absent
               /\ ocrCalls'[i] = ocrCalls[i] + 1

\* C1 as stated: run_ocr is called for page i if and only if page-<i>.txt is
\* absent when the loop reaches page i, and over all runs, no file being
\* deleted, it is called at most once for each page.
C1_OcrAtMostOncePerPage ==
    [][ /\ InvokedIffAbsent
        /\ \A i \in AllPages : ocrCalls'[i] <= 1 ]_vars

\* C1 as amended: run_ocr is called for page i if and only if page-<i>.txt is
\* absent when the loop reaches page i, whatever an existing file holds; over
\* all runs it is called at most once for each page, plus once for every run
\* that was killed while the call for that page was under way.
C1_OcrOncePerPageUnlessKilled ==
    [][ /\ InvokedIffAbsent
        /\ \A i \in AllPages : ocrCalls'[i] <= 1 + lostCalls'[i] ]_vars

\* C1's case: a second run of a two-page document whose first page had a text
\* file from the start and whose second page timed out in the first run;
\* both are skipped, run_ocr was called once for page 2 and never for page 1.
C1_Witness ==
    /\ pc = "done" /\ runs = 2 /\ kills = 0 /\ nPages = 2
    /\ ocrCalls[1] = 0 /\ ocrResult[1] = NoResult /\ files[1] # Absent
    /\ ocrCalls[2] = 1 /\ files[2] = TimeoutPlaceholder

\* C2: a page whose OCR call timed out holds exactly the timeout placeholder,
\* a page whose call failed otherwise holds the (different) error placeholder;
\* the loop goes on to the later pages, so that after the loop every page has
\* a text file, a finished run exits with status 0, and a run fails only in
\* the rasterizer or in the compositor.
C2_FailureIsolation ==
    /\ TimeoutPlaceholder # ErrorPlaceholder
    /\ \A i \in Pages :
           /\ ocrResult[i] = TimedOut => files[i] = TimeoutPlaceholder
           /\ ocrResult[i] = Failed => files[i] = ErrorPlaceholder
    /\ pc \in {"loop", "ocr"} => \A j \in 1..(idx - 1) : files[j] # Absent
    /\ pc \in {"postpass", "compose", "done"} => AllPresent
    /\ pc = "done" => exitCode = 0
    /\ pc = "failed" => (~images \/ pandocCalls = 1)

\* C2's case: a run of a three-page document in which page 1 timed out, page 2
\* failed and page 3 was recognized has finished with status 0.
C2_Witness ==
    /\ pc = "done" /\ exitCode = 0 /\ runs = 1 /\ kills = 0 /\ nPages = 3
    /\ ocrResult[1] = TimedOut /\ files[1] = TimeoutPlaceholder
    /\ ocrResult[2] = Failed /\ files[2] = ErrorPlaceholder
    /\ ocrResult[3] = HelloRaw

\* C3 as stated: no step of any run changes the content of a page text file
\* that exists.
C3_PageTextNeverChanges ==
    [][ \A i \in AllPages : files[i] # Absent => files'[i] = files[i] ]_vars

\* C3 as amended: the only step that changes the content c of an existing page
\* text file is the citation post-pass, which makes it fix_citations(c); a
\* file the per-page loop of this program wrote (recognized text or a
\* placeholder) is never changed by any step of any run.
C3_PageTextChangedOnlyByPostPass ==
    [][ \A i \in AllPages :
            files[i] # Absent =>
                /\ \/ files'[i] = files[i]
                   \/ /\ pc = "postpass"
                      /\ files'[i] = fix_citations(files[i])
                /\ ocrResult[i] # NoResult => files'[i] = files[i] ]_vars

\* C3's case: after a second complete run, page 1, which the loop wrote in the
\* first run, holds what the loop wrote, and page 2, left by an earlier
\* program with a citation not yet rewritten, holds the rewritten citation.
C3_Witness ==
    /\ pc = "done" /\ runs = 2 /\ nPages = 2
    /\ ocrResult[1] = HelloRaw /\ files[1] = normalize_text(HelloRaw)
    /\ ocrResult[2] = NoResult /\ files[2] = <<"[", "^", "1", "]">>

Terminated == pc \in {"done", "failed"}

\* C4: a run started after a kill skips the pages that have a text file and
\* calls run_ocr first for the first page without one; and once a run was
\* killed, the pipeline, run again, comes to an end with a text file for every
\* page.
C4_ResumeAfterKill ==
    /\ [](firstOcr # 0 => firstOcr = firstAbsent)
    /\ [](pc \in {"loop", "ocr"} => \A j \in 1..(idx - 1) : files[j] # Absent)
    /\ ((pc = "killed") ~> (Terminated /\ AllPresent))

\* C4's case: a three-page document; the run was killed while the backend
\* worked on page 2; the next run skipped page 1, called run_ocr for page 2
\* again, and finished with every page written.
C4_Witness ==
    /\ pc = "done" /\ kills = 1 /\ nPages = 3 /\ AllPresent
    /\ ocrCalls[1] = 1 /\ ocrCalls[2] = 2 /\ lostCalls[2] = 1
    /\ firstAbsent = 2 /\ firstOcr = 2

HelloRun == pc = "done" /\ nPages = 3 /\ \A i \in Pages : ocrResult[i] = HelloRaw

\* C5 as stated: when the backend returns "<|ref|>Hello\n\n(^1)" for each page
\* of a three-page document without text files, the run leaves three text
\* files that hold "Hello\n\n[^1]".
C5_HelloPagesKeepHello ==
    HelloRun => \A i \in Pages : files[i] = 
        <<"H", "e", "l", "l", "o", "\n", "\n", "[", "^", "1", "]">>

\* C5 as amended: when the backend returns "<|ref|>Hello\n\n(^1)" for each
\* page of a three-page document without text files, the run leaves three
\* text files that hold "[^1]": the line "<|ref|>Hello" begins with the
\* control marker and is dropped whole.
C5_HelloPagesHoldCitation ==
    HelloRun => \A i \in Pages : files[i] = <<"[", "^", "1", "]">>

\* C5's case: one run, never killed, of a three-page document that started
\* without text files and got the Hello text for every page.
C5_Witness ==
    /\ HelloRun /\ runs = 1 /\ kills = 0
    /\ \A i \in Pages : ocrCalls[i] = 1

\* C9: with an output format asked for, pandoc is invoked exactly when the
\* target is absent at the compositor step; an existing target is left as it
\* is and pandoc is not invoked; and pandoc is invoked only when every page
\* has a text file.
C9_CompositorSkip ==
    [][ /\ pc = "compose" =>
               /\ pandocCalls' = pandocCalls + 1 <=> outFile = Absent
               /\ outFile # Absent =>
                      outFile' = outFile /\ pandocCalls' = pandocCalls
        /\ pandocCalls' > pandocCalls =>
               pc = "compose" /\ fmt # None /\ AllPresent
        /\ outFile' # outFile => pc = "compose" /\ outFile = Absent ]_vars

\* C9's case: a run that asked for a PDF whose target existed has finished
\* without invoking pandoc, the target as it was.
C9_Witness ==
    /\ pc = "done" /\ fmt = "pdf" /\ outFile = Existing /\ pandocCalls = 0
    /\ exitCode = 0 /\ AllPresent

----------------------------------------------------------------------------
(* Properties of the normalizer (SpecNorm) *)

\* C6: normalize_text(normalize_text(s)) = normalize_text(s) for every s.
C6_NormalizeIdempotent == npc = "renormalized" => text = norm1

\* C7: fix_citations maps (^26), (^{26}), (^ { 26 } ) and \(^26\) to [^26].
C7_VariantsRewriteTo26 ==
    (npc = "cited" /\ raw \in CiteVariants) => text = Canon26

BeginsWithMarker(l) == Len(l) >= 2 /\ SubSeq(l, 1, 2) = <<"<", "|">>
NoMarkerAtStart(l)  == ~BeginsWithMarker(l)

\* C8: the lines normalize_text keeps are the input lines that do not begin
\* with "<|", in order, each without its trailing whitespace: a line that
\* begins with "<|" is dropped whole, a line with "<|" further on is kept, and
\* blank lines stay where they were.
C8_MarkerLinesDropped ==
    npc = "filtered" =>
        LET kept == SelectSeq(SplitLines(raw), NoMarkerAtStart)
        IN  /\ Len(lines) = Len(kept)
            /\ \A k \in 1..Len(kept) : lines[k] = RStrip(kept[k])
            /\ \A k \in 1..Len(lines) : ~BeginsWithMarker(lines[k])

\* C8's case: "<|foo|>bar", a blank line, "text<|mid|>", a blank line, "end":
\* the first line is gone, the rest is kept.
C8_Witness ==
    /\ npc = "filtered" /\ raw = MixedPage
    /\ lines = << << >>, MidMarker, << >>, <<"e", "n", "d">> >>

----------------------------------------------------------------------------
(* Properties of the translation utility (SpecTrans) *)

MarkdownSuffixes == {<<".", "m", "d">>, <<".", "M", "D">>, <<".", "M", "d">>,
                     <<".", "m", "D">>}

MarkdownFileGiven == tArgc = 2 /\ tExists /\ tSuffix \in MarkdownSuffixes

\* C10: the sibling file is written only when the input exists, has the
\* markdown extension and the backend exits zero, and then holds the
\* translation; for a wrong extension or a missing file the utility exits
\* nonzero without invoking the backend; when the backend exits nonzero the
\* utility fails; and no failing case writes the sibling file.
C10_TranslationAllOrNothing ==
    [][ /\ tOut' # tOut =>
               /\ MarkdownFileGiven /\ tRet'.code = 0 /\ tExit' = 0
               /\ tOut' = Strip(tRet'.out)
        /\ (tpc' = "exited" /\ ~MarkdownFileGiven) =>
               tExit' > 0 /\ tCalls' = 0 /\ tOut' = tOut
        /\ tRet'.code > 0 => tExit' > 0 /\ tOut' = tOut
        /\ tExit' > 0 => tOut' = tOut
        /\ (tpc' = "exited" /\ MarkdownFileGiven /\ tRet'.code = 0) =>
               tExit' = 0 /\ tCalls' = 1 ]_vars

\* C10's case: an existing .txt file was given; the utility has exited with
\* status 1, the backend not invoked, no sibling file there.
C10_Witness ==
    /\ tpc = "exited" /\ tArgc = 2 /\ tExists /\ tSuffix = <<".", "t", "x", "t">>
    /\ tExit = 1 /\ tCalls = 0 /\ tOut = Absent

====
